---- MODULE Spec2Model ----
(***************************************************************************)
(* A model of the two algorithmic cores of YetAnotherGitGui:               *)
(*   - build_commit_graph (src-tauri/src/git/graph.rs), the single pass    *)
(*     that lays a commit list out in columns and lines;                   *)
(*   - the line-level patch functions of src-tauri/src/git/staging.rs      *)
(*     (apply_hunk_to_content, apply_selected_lines_to_content,            *)
(*     reverse_apply_hunk).                                                *)
(* Column numbers are 0-based as in the source; TLA+ sequences are 1-based *)
(* so column c of active_columns is active_columns[c + 1].                 *)
(***************************************************************************)
EXTENDS Integers, Sequences, FiniteSets, TLC

VARIABLES
    commits,         \* graph: the commits the loop has consumed so far (input, in order)
    result,          \* graph: Vec<GraphCommit> built so far
    column_map,      \* graph: HashMap<String, usize>, hash -> reserved column
    active_columns,  \* graph: Vec<Option<String>>, column -> hash it is reserved for
    max_reserved,    \* graph: largest number of occupied columns seen at a row boundary
    panicked,        \* graph: TRUE once an index operation was out of range
    text,            \* patch: the content the first call was given
    hunk,            \* patch: the DiffHunk of the calls
    content,         \* patch: the content as the calls so far left it
    selected,        \* patch: the selected_indices of the last selective call
    calls,           \* patch: the patch functions called so far, in order
    stream,          \* diff: the callbacks diff.print has made so far (input, in order)
    config,          \* diff: the DiffConfig of the call
    file_diff,       \* diff: FileDiff built so far
    current_hunk,    \* diff: Option<DiffHunk>, <<>> for None and <<h>> for Some(h)
    current_hunk_header, \* diff: Option<String>, <<>> for None
    bytes_collected, \* diff: cumulative bytes of loaded line content
    budget_exceeded, \* diff: TRUE once bytes_collected was above the budget
    diff_done,       \* diff: TRUE once diff.print returned and the last hunk was pushed
    repository,      \* cmd: AppState.repository, Option<Repository>: <<>> or <<path>>
    repo_lock,       \* cmd: the thread that holds the mutex of AppState.repository, 0 if free
    pc,              \* cmd: where each thread is in the command it runs
    cmd,             \* cmd: the command each thread runs: arguments, locals, result
    repos,           \* cmd: the repositories on disk: path -> contents of the file
    ncalls           \* cmd: the number of commands invoked so far

graphVars == <<commits, result, column_map, active_columns, max_reserved, panicked>>

patchVars == <<text, hunk, content, selected, calls>>

diffVars == <<stream, config, file_diff, current_hunk, current_hunk_header,
              bytes_collected, budget_exceeded, diff_done>>

cmdVars == <<repository, repo_lock, pc, cmd, repos, ncalls>>

vars == <<commits, result, column_map, active_columns, max_reserved, panicked,
          text, hunk, content, selected, calls,
          stream, config, file_diff, current_hunk, current_hunk_header,
          bytes_collected, budget_exceeded, diff_done,
          repository, repo_lock, pc, cmd, repos, ncalls>>

-----------------------------------------------------------------------------
(* Bounds and value domains                                                *)

\* longest topologically ordered commit list given to build_commit_graph
MaxCommits == 5

\* most parents of a commit of a topologically ordered list
MaxParents == 2

\* longest malformed commit list (duplicate hashes, self-references, any order)
MaxMalformed == 4

\* commit hashes of malformed lists
AnyHashes == {1, 2}

\* parent lists of malformed lists: none, one, a repeated one, two out of order
AnyParentLists == {<<>>, <<1>>, <<2>>, <<1, 1>>, <<2, 1>>}

\* most lines of a generated text
MaxTextLines == 2

\* most lines of a generated hunk
MaxHunkLines == 2

\* largest old_start / new_start of a generated hunk (1-based; 0 for an empty side)
MaxStart == 2

\* most callbacks of one diff.print
MaxStream == 6

\* most hunks of one diff
MaxHunks == 3

\* most commands invoked in one run of the application
MaxCalls == 3

\* largest hunk_index a caller passes
MaxHunkIndex == 2

\* Option::None for a column of active_columns and for parent_hashes.first()
None == 0

Max(S) == CHOOSE x \in S : \A y \in S : y <= x

Min(S) == CHOOSE x \in S : \A y \in S : x <= y

\* sequences over S of length 0..n
SeqsUpTo(S, n) == UNION {[1..k -> S] : k \in 0..n}

\* sequences without repetition
Distinct(s) == \A i, j \in 1..Len(s) : i # j => s[i] # s[j]

-----------------------------------------------------------------------------
(* build_commit_graph                                                      *)

CommitInfo(h, ps) == [hash |-> h, parent_hashes |-> ps]

GraphLine(from, to, merge, type) ==
    [from_column |-> from, to_column |-> to, is_merge |-> merge, line_type |-> type]

\* the ref map handed to build_commit_graph: hash 1 carries the HEAD branch
branch_refs == (1 :> <<[name |-> "main", ref_type |-> "Branch", is_head |-> TRUE]>>)

\* an allocation that never reuses a freed column: always a new one at the end
FreeColumnNoReuse(active) == Len(active)

\* active_columns.iter().position(|c| c.is_none()).unwrap_or_else(|| { push(None); len - 1 })
\* : the column found (0-based)
FreeColumn(active) ==
    IF \E i \in 1..Len(active) : active[i] = None
    THEN Min({i \in 1..Len(active) : active[i] = None}) - 1
    ELSE Len(active)

\* ... and the vector after the possible push(None)
WithFreeColumn(active) ==
    IF \E i \in 1..Len(active) : active[i] = None THEN active ELSE Append(active, None)

\* Vec::resize(n, None), only ever called to grow
Resize(active, n) ==
    IF n > Len(active)
    THEN active \o [i \in 1..(n - Len(active)) |-> None]
    ELSE SubSeq(active, 1, n)

\* active_columns[col] = val; the caller has checked col < len
SetColumn(active, col, val) == [active EXCEPT ![col + 1] = val]

\* commit.parent_hashes.first()
FirstParent(commit) ==
    IF Len(commit.parent_hashes) = 0 THEN None ELSE commit.parent_hashes[1]

\* a lookup that ignores the reservation made for the commit
ResolveColumnUnreserved(commit, cmap, active) ==
    [column |-> FreeColumn(active), is_tip |-> TRUE, active |-> WithFreeColumn(active)]

\* a lookup that takes the reserved column but reports every row as a tip
ResolveColumnAsTip(commit, cmap, active) ==
    IF commit.hash \in DOMAIN cmap
    THEN [column |-> cmap[commit.hash], is_tip |-> TRUE, active |-> active]
    ELSE [column |-> FreeColumn(active), is_tip |-> TRUE, active |-> WithFreeColumn(active)]

\* the column of the row and whether it is a tip
ResolveColumn(commit, cmap, active) ==
    IF commit.hash \in DOMAIN cmap
    THEN [column |-> cmap[commit.hash], is_tip |-> FALSE, active |-> active]
    ELSE [column |-> FreeColumn(active), is_tip |-> TRUE, active |-> WithFreeColumn(active)]

\* a drawing pass that leaves the PassThrough lines out
DrawOnlyFromAbove(active, column, i) ==
    IF column < Len(active) /\ active[column + 1] # None
    THEN <<GraphLine(column, column, FALSE, "FromAbove")>>
    ELSE <<>>

\* a drawing pass that draws the column of the commit as passing through
RECURSIVE DrawAllPassThrough(_, _, _)
DrawAllPassThrough(active, column, i) ==
    IF i > Len(active) THEN <<>>
    ELSE (IF active[i] = None THEN <<>>
          ELSE <<GraphLine(i - 1, i - 1, FALSE, "PassThrough")>>)
         \o DrawAllPassThrough(active, column, i + 1)

\* one FromAbove or PassThrough line per occupied column, in column order
RECURSIVE DrawLines(_, _, _)
DrawLines(active, column, i) ==
    IF i > Len(active) THEN <<>>
    ELSE (IF active[i] = None THEN <<>>
          ELSE IF i - 1 = column
               THEN <<GraphLine(i - 1, i - 1, FALSE, "FromAbove")>>
               ELSE <<GraphLine(i - 1, i - 1, FALSE, "PassThrough")>>)
         \o DrawLines(active, column, i + 1)

\* a row that leaves its column occupied
KeepColumn(active, column) == active

\* if column < active_columns.len() { active_columns[column] = None }
ClearColumn(active, column) ==
    IF column < Len(active) THEN SetColumn(active, column, None) ELSE active

\* a takeover that leaves the PassThrough line of the old column in the row
KeepPassThrough(lines, existing_col) == lines

\* lines.retain(|l| !(PassThrough && l.from_column == existing_col))
DropPassThrough(lines, existing_col) ==
    SelectSeq(lines, LAMBDA l : ~(l.line_type = "PassThrough" /\ l.from_column = existing_col))

\* a takeover without the backward scan
NoRetroFix(rows, parent, existing_col, column) == rows

\* the backward scan that rewrites the nearest earlier row whose first parent is `parent`
RetroFix(rows, parent, existing_col, column) ==
    LET hits == {i \in 1..Len(rows) : FirstParent(rows[i].commit) = parent}
    IN  IF hits = {} THEN rows
        ELSE LET i  == Max(hits)
                 ls == rows[i].lines
                 js == {j \in 1..Len(ls) : /\ ls[j].line_type = "ToParent"
                                           /\ ~ls[j].is_merge
                                           /\ ls[j].to_column = existing_col}
             IN  IF js = {} THEN rows
                 ELSE [rows EXCEPT ![i].lines[Min(js)].to_column = column]

\* a first-parent block without the takeover: a reserved parent is converged to
ConvergeFirstParent(st, commit, column) ==
    LET parent == FirstParent(commit)
    IN  IF parent = None THEN st
        ELSE IF parent \in DOMAIN st.cmap
        THEN [st EXCEPT !.lines = Append(st.lines,
                            GraphLine(column, st.cmap[parent], FALSE, "ToParent"))]
        ELSE [st EXCEPT
                !.cmap   = (parent :> column) @@ st.cmap,
                !.active = SetColumn(Resize(st.active, Max({Len(st.active), column + 1})),
                                     column, parent),
                !.lines  = Append(st.lines, GraphLine(column, column, FALSE, "ToParent"))]

\* the first-parent block: continue, converge or take over.
\* st = [rows, cmap, active, lines, panic]
HandleFirstParent(st, commit, column) ==
    LET parent == FirstParent(commit)
    IN  IF parent = None THEN st
        ELSE IF parent \in DOMAIN st.cmap
        THEN LET existing_col == st.cmap[parent]
             IN  IF column < existing_col
                 THEN \* takeover
                      LET a1 == IF existing_col < Len(st.active)
                                THEN SetColumn(st.active, existing_col, None)
                                ELSE st.active
                          a2 == IF column >= Len(a1) THEN Resize(a1, column + 1) ELSE a1
                      IN  IF column >= Len(a2) THEN [st EXCEPT !.panic = TRUE]
                          ELSE [st EXCEPT
                                  !.cmap   = (parent :> column) @@ st.cmap,
                                  !.active = SetColumn(a2, column, parent),
                                  !.lines  = DropPassThrough(
                                                Append(st.lines,
                                                       GraphLine(column, column, FALSE, "ToParent")),
                                                existing_col),
                                  !.rows   = RetroFix(st.rows, parent, existing_col, column)]
                 ELSE \* convergence
                      [st EXCEPT !.lines = Append(st.lines,
                                     GraphLine(column, existing_col, FALSE, "ToParent"))]
        ELSE \* parent not yet assigned: continue in the same column
             LET a2 == IF column >= Len(st.active)
                       THEN Resize(st.active, column + 1) ELSE st.active
             IN  IF column >= Len(a2) THEN [st EXCEPT !.panic = TRUE]
                 ELSE [st EXCEPT
                         !.cmap   = (parent :> column) @@ st.cmap,
                         !.active = SetColumn(a2, column, parent),
                         !.lines  = Append(st.lines,
                                           GraphLine(column, column, FALSE, "ToParent"))]

\* a merge-parent step that draws no line to a parent that has no column yet
SkipUnreservedParent(st, parent, column) ==
    IF parent \in DOMAIN st.cmap
    THEN [st EXCEPT !.lines = Append(st.lines,
                        GraphLine(column, st.cmap[parent], TRUE, "ToParent"))]
    ELSE st

\* a merge-parent step that does not flag the line to an already reserved parent
UnflaggedMergeParent(st, parent, column) ==
    IF parent \in DOMAIN st.cmap
    THEN [st EXCEPT !.lines = Append(st.lines,
                        GraphLine(column, st.cmap[parent], FALSE, "ToParent"))]
    ELSE LET col == FreeColumn(st.active)
             a1  == WithFreeColumn(st.active)
             a2  == IF col >= Len(a1) THEN Append(a1, parent)
                    ELSE SetColumn(a1, col, parent)
         IN  [st EXCEPT
                !.cmap   = (parent :> col) @@ st.cmap,
                !.active = a2,
                !.lines  = Append(st.lines, GraphLine(column, col, TRUE, "ToParent"))]

\* one merge parent (index >= 1 of parent_hashes)
HandleMergeParent(st, parent, column) ==
    IF parent \in DOMAIN st.cmap
    THEN [st EXCEPT !.lines = Append(st.lines,
                        GraphLine(column, st.cmap[parent], TRUE, "ToParent"))]
    ELSE LET col == FreeColumn(st.active)
             a1  == WithFreeColumn(st.active)
             a2  == IF col >= Len(a1) THEN Append(a1, parent)
                    ELSE SetColumn(a1, col, parent)
         IN  [st EXCEPT
                !.cmap   = (parent :> col) @@ st.cmap,
                !.active = a2,
                !.lines  = Append(st.lines, GraphLine(column, col, TRUE, "ToParent"))]

\* for parent in commit.parent_hashes.iter().skip(1)
RECURSIVE HandleMergeParents(_, _, _, _)
HandleMergeParents(st, ps, column, i) ==
    IF i > Len(ps) \/ st.panic THEN st
    ELSE HandleMergeParents(HandleMergeParent(st, ps[i], column), ps, column, i + 1)

\* branch_refs.get(&commit.hash).cloned().unwrap_or_default()
RefsOf(hash) == IF hash \in DOMAIN branch_refs THEN branch_refs[hash] ELSE <<>>

\* rows collected newest last
PushRowFront(rows, row) == <<row>> \o rows

\* result.push(GraphCommit { .. })
PushRow(rows, row) == Append(rows, row)

\* number of occupied columns
Occupied(active) == Cardinality({i \in 1..Len(active) : active[i] # None})

\* the body of `for commit in commits`
LoopBody(rows, cmap, active, commit) ==
    LET rc     == ResolveColumn(commit, cmap, active)
        column == rc.column
        lines0 == DrawLines(rc.active, column, 1)
        st0    == [rows |-> rows, cmap |-> cmap, active |-> ClearColumn(rc.active, column),
                   lines |-> lines0, panic |-> FALSE]
        st1    == HandleFirstParent(st0, commit, column)
        st2    == HandleMergeParents(st1, commit.parent_hashes, column, 2)
    IN  IF st2.panic THEN [st2 EXCEPT !.rows = rows]
        ELSE [st2 EXCEPT !.rows = PushRow(st2.rows,
                                     [commit |-> commit, column |-> column,
                                      lines |-> st2.lines, refs |-> RefsOf(commit.hash),
                                      is_tip |-> rc.is_tip])]

\* one iteration of the loop on the next commit of the input
ProcessCommit(commit) ==
    /\ ~panicked
    /\ LET st == LoopBody(result, column_map, active_columns, commit)
       IN  /\ commits' = Append(commits, commit)
           /\ result' = st.rows
           /\ column_map' = st.cmap
           /\ active_columns' = st.active
           /\ panicked' = st.panic
           /\ max_reserved' = Max({max_reserved, Occupied(st.active)})
    /\ UNCHANGED <<patchVars, diffVars, cmdVars>>

InitGraph ==
    /\ commits = <<>>
    /\ result = <<>>
    /\ column_map = <<>>
    /\ active_columns = <<>>
    /\ max_reserved = 0
    /\ panicked = FALSE

\* any commit at all: duplicate hashes, self-references, parents in any order
AnyCommits == {CommitInfo(h, ps) : h \in AnyHashes, ps \in AnyParentLists}

\* the commit the walk yields at row n of a topologically ordered list with unique
\* hashes: row n carries hash n and its parents are distinct hashes of later rows
\* (a parent beyond the end of the list never appears: the list is a page of history)
TopoCommits(n) ==
    {CommitInfo(n, ps) : ps \in {q \in SeqsUpTo((n + 1)..MaxCommits, MaxParents) : Distinct(q)}}

\* the list is topologically ordered with unique hashes
TopoOrdered(cs) ==
    \A i \in 1..Len(cs) :
        /\ cs[i].hash = i
        /\ Distinct(cs[i].parent_hashes)
        /\ \A k \in 1..Len(cs[i].parent_hashes) : cs[i].parent_hashes[k] > i

\* the list is made of AnyCommits only
Malformed(cs) == \A i \in 1..Len(cs) : cs[i] \in AnyCommits

\* the next commit of the input: of a topologically ordered list of up to MaxCommits
\* commits, or of a list of up to MaxMalformed commits of AnyCommits
NextCommits ==
    (IF TopoOrdered(commits) /\ Len(commits) < MaxCommits
     THEN TopoCommits(Len(commits) + 1) ELSE {})
    \cup (IF Malformed(commits) /\ Len(commits) < MaxMalformed THEN AnyCommits ELSE {})

-----------------------------------------------------------------------------
(* The patch functions of staging.rs.  A text is a sequence of symbols: the *)
(* line feed "\n", the carriage return "\r", and letters or words that     *)
(* stand for a piece of a line without line ending.                        *)

NL == "\n"

CR == "\r"

\* str::ends_with('\n')
EndsWithNewline(s) == Len(s) > 0 /\ s[Len(s)] = NL

\* a line as str::lines() yields it: without its "\n" and without the "\r" of a "\r\n"
StripCR(l) == IF Len(l) > 0 /\ l[Len(l)] = CR THEN SubSeq(l, 1, Len(l) - 1) ELSE l

\* str::lines(): split at every "\n"; a last piece without "\n" is a line if not empty
RECURSIVE LinesFrom(_, _, _)
LinesFrom(s, i, cur) ==
    IF i > Len(s) THEN (IF cur = <<>> THEN <<>> ELSE <<cur>>)
    ELSE IF s[i] = NL THEN <<StripCR(cur)>> \o LinesFrom(s, i + 1, <<>>)
    ELSE LinesFrom(s, i + 1, Append(cur, s[i]))

Lines(s) == LinesFrom(s, 1, <<>>)

\* [String]::join("\n")
RECURSIVE Join(_)
Join(ls) ==
    IF Len(ls) = 0 THEN <<>>
    ELSE IF Len(ls) = 1 THEN ls[1]
    ELSE ls[1] \o <<NL>> \o Join(Tail(ls))

\* str::trim_end_matches('\n')
RECURSIVE TrimEndNewlines(_)
TrimEndNewlines(s) ==
    IF EndsWithNewline(s) THEN TrimEndNewlines(SubSeq(s, 1, Len(s) - 1)) ELSE s

\* (x as usize).saturating_sub(1)
SaturatingSub1(x) == IF x > 0 THEN x - 1 ELSE 0

\* lines.iter().take(n)
Take(ls, n) == SubSeq(ls, 1, IF n < Len(ls) THEN n ELSE Len(ls))

\* lines.iter().skip(n)
Skip(ls, n) == SubSeq(ls, n + 1, Len(ls))

\* result.join("\n") + if content.ends_with('\n') { "\n" } else { "" }
Render(res, input) == Join(res) \o (IF EndsWithNewline(input) THEN <<NL>> ELSE <<>>)

\* if content_pos < lines.len() { result.extend(lines.iter().skip(content_pos)) }
WithRemaining(res, lines, pos) == IF pos < Len(lines) THEN res \o Skip(lines, pos) ELSE res

DiffLine(c, t) == [content |-> c, line_type |-> t]

DiffHunk(os, ns, ls) == [old_start |-> os, new_start |-> ns, lines |-> ls]

\* what a read of lines[content_pos] beyond the end of lines leaves behind: the
\* index panics and the function returns no text
IndexOutOfBounds == "<index out of bounds>"

\* a guard that lets every position through
AlwaysInRange(lines, pos) == TRUE

\* content_pos < lines.len()
InRange(lines, pos) == pos < Len(lines)

\* lines[content_pos]
LineAt(lines, pos) == IF pos < Len(lines) THEN lines[pos + 1] ELSE <<IndexOutOfBounds>>

\* a selection test that looks at the indices only
IndexSelected(sel, idx) == idx \in sel.indices

\* the loop of apply_hunk_to_content over hunk.lines; i is the 1-based position,
\* pos is content_pos
RECURSIVE ApplyHunkLoop(_, _, _, _, _)
ApplyHunkLoop(lines, hlines, i, res, pos) ==
    IF i > Len(hlines) THEN [res |-> res, pos |-> pos]
    ELSE LET line == hlines[i]
         IN  IF line.line_type = "Context"
             THEN IF InRange(lines, pos)
                  THEN ApplyHunkLoop(lines, hlines, i + 1, Append(res, LineAt(lines, pos)), pos + 1)
                  ELSE ApplyHunkLoop(lines, hlines, i + 1, res, pos)
             ELSE IF line.line_type = "Addition"
             THEN ApplyHunkLoop(lines, hlines, i + 1,
                                Append(res, TrimEndNewlines(line.content)), pos)
             ELSE IF line.line_type = "Deletion"
             THEN ApplyHunkLoop(lines, hlines, i + 1, res, pos + 1)
             ELSE ApplyHunkLoop(lines, hlines, i + 1, res, pos)

apply_hunk_to_content(c, h) ==
    LET lines == Lines(c)
        start == SaturatingSub1(h.old_start)
        out   == ApplyHunkLoop(lines, h.lines, 1, Take(lines, start), start)
    IN  Render(WithRemaining(out.res, lines, out.pos), c)

\* a selective apply that takes every line of the hunk as selected
ApplyEveryLine(c, h, sel) == apply_hunk_to_content(c, h)

\* the loop of apply_selected_lines_to_content; sel is selected_indices (0-based)
RECURSIVE ApplySelectedLoop(_, _, _, _, _, _)
ApplySelectedLoop(lines, hlines, i, res, pos, sel) ==
    IF i > Len(hlines) THEN [res |-> res, pos |-> pos]
    ELSE LET line == hlines[i]
         IN  IF line.line_type = "Context"
             THEN IF InRange(lines, pos)
                  THEN ApplySelectedLoop(lines, hlines, i + 1,
                                         Append(res, LineAt(lines, pos)), pos + 1, sel)
                  ELSE ApplySelectedLoop(lines, hlines, i + 1, res, pos, sel)
             ELSE IF line.line_type = "Addition"
             THEN IF (i - 1) \in sel
                  THEN ApplySelectedLoop(lines, hlines, i + 1,
                                         Append(res, TrimEndNewlines(line.content)), pos, sel)
                  ELSE ApplySelectedLoop(lines, hlines, i + 1, res, pos, sel)
             ELSE IF line.line_type = "Deletion"
             THEN IF (i - 1) \in sel
                  THEN ApplySelectedLoop(lines, hlines, i + 1, res, pos + 1, sel)
                  ELSE IF InRange(lines, pos)
                  THEN ApplySelectedLoop(lines, hlines, i + 1,
                                         Append(res, LineAt(lines, pos)), pos + 1, sel)
                  ELSE ApplySelectedLoop(lines, hlines, i + 1, res, pos, sel)
             ELSE ApplySelectedLoop(lines, hlines, i + 1, res, pos, sel)

apply_selected_lines_to_content(c, h, sel) ==
    LET lines == Lines(c)
        start == SaturatingSub1(h.old_start)
        out   == ApplySelectedLoop(lines, h.lines, 1, Take(lines, start), start, sel)
    IN  Render(WithRemaining(out.res, lines, out.pos), c)

\* Option::None passed as selected_indices
NoSelection == [is_some |-> FALSE, indices |-> {}]

\* Some(indices) passed as selected_indices
Some(indices) == [is_some |-> TRUE, indices |-> indices]

\* selected_indices.map(|indices| indices.contains(&idx)).unwrap_or(true)
IsSelected(sel, idx) == IF sel.is_some THEN idx \in sel.indices ELSE TRUE

\* the loop of reverse_apply_hunk
RECURSIVE ReverseLoop(_, _, _, _, _, _)
ReverseLoop(lines, hlines, i, res, pos, sel) ==
    IF i > Len(hlines) THEN [res |-> res, pos |-> pos]
    ELSE LET line == hlines[i]
         IN  IF line.line_type = "Context"
             THEN IF InRange(lines, pos)
                  THEN ReverseLoop(lines, hlines, i + 1, Append(res, LineAt(lines, pos)), pos + 1, sel)
                  ELSE ReverseLoop(lines, hlines, i + 1, res, pos, sel)
             ELSE IF line.line_type = "Deletion"
             THEN IF IsSelected(sel, i - 1)
                  THEN ReverseLoop(lines, hlines, i + 1,
                                   Append(res, TrimEndNewlines(line.content)), pos, sel)
                  ELSE ReverseLoop(lines, hlines, i + 1, res, pos, sel)
             ELSE IF line.line_type = "Addition"
             THEN IF IsSelected(sel, i - 1)
                  THEN ReverseLoop(lines, hlines, i + 1, res, pos + 1, sel)
                  ELSE IF InRange(lines, pos)
                  THEN ReverseLoop(lines, hlines, i + 1, Append(res, LineAt(lines, pos)), pos + 1, sel)
                  ELSE ReverseLoop(lines, hlines, i + 1, res, pos, sel)
             ELSE ReverseLoop(lines, hlines, i + 1, res, pos, sel)

reverse_apply_hunk(c, h, sel) ==
    LET lines == Lines(c)
        start == SaturatingSub1(h.new_start)
        out   == ReverseLoop(lines, h.lines, 1, Take(lines, start), start, sel)
    IN  Render(WithRemaining(out.res, lines, out.pos), c)

(* The inputs of the patch functions *)

\* the lines of a generated text, without their line ending
TextLineSet == {<<>>, <<"a">>, <<"b">>}

\* a text of the given lines, each but the last followed by "\n", the last one too
\* if nl
TextOf(ls, nl) == Join(ls) \o (IF nl /\ Len(ls) > 0 THEN <<NL>> ELSE <<>>)

\* a file with CRLF line endings
CrlfText == <<"a", CR, NL, "b", CR, NL>>

GeneratedTexts ==
    {TextOf(ls, nl) : ls \in SeqsUpTo(TextLineSet, MaxTextLines), nl \in BOOLEAN}
    \cup {CrlfText}

\* the lines of a generated hunk; content carries its "\n" as libgit2 delivers it
HunkLineSet ==
    {DiffLine(<<"a", NL>>, "Context"),
     DiffLine(<<"b", NL>>, "Addition"), DiffLine(<<NL>>, "Addition"),
     DiffLine(<<"a", NL>>, "Deletion"), DiffLine(<<"b", NL>>, "Deletion"),
     DiffLine(<<NL>>, "Header")}

\* old_start and new_start of a generated hunk: equal, or 0 and 1 when one side is empty
StartPairs == {<<s, s>> : s \in 0..MaxStart} \cup {<<0, 1>>, <<1, 0>>}

GeneratedHunks ==
    {DiffHunk(p[1], p[2], ls) : p \in StartPairs, ls \in SeqsUpTo(HunkLineSet, MaxHunkLines)}

\* the text and the hunk of test_apply_hunk_to_content (replace line2 by modified2)
ScenarioText == <<"line1", NL, "line2", NL, "line3", NL>>

ScenarioHunk ==
    DiffHunk(1, 1, <<DiffLine(<<"line1", NL>>, "Context"),
                     DiffLine(<<"line2", NL>>, "Deletion"),
                     DiffLine(<<"modified2", NL>>, "Addition"),
                     DiffLine(<<"line3", NL>>, "Context")>>)

\* all indices of hunk.lines (0-based)
AllIndices(h) == {i - 1 : i \in 1..Len(h.lines)}

\* the selections of lines of a hunk: sets of 0-based indices into hunk.lines, and two
\* that hold an index outside the hunk
Selections(h) ==
    (SUBSET AllIndices(h)) \cup {{Len(h.lines)}, AllIndices(h) \cup {Len(h.lines)}}

\* stage_hunk: new_content = apply_hunk_to_content(current_content, hunk)
ApplyHunk ==
    /\ calls = <<>>
    /\ content' = apply_hunk_to_content(content, hunk)
    /\ calls' = <<"apply_hunk_to_content">>
    /\ UNCHANGED <<text, hunk, selected>>
    /\ UNCHANGED <<graphVars, diffVars, cmdVars>>

\* stage_lines: apply_selected_lines_to_content(current_content, hunk, &line_indices)
ApplySelected(sel) ==
    /\ calls = <<>>
    /\ content' = apply_selected_lines_to_content(content, hunk, sel)
    /\ selected' = sel
    /\ calls' = <<"apply_selected_lines_to_content">>
    /\ UNCHANGED <<text, hunk>>
    /\ UNCHANGED <<graphVars, diffVars, cmdVars>>

\* unstage_hunk: reverse_apply_hunk(current_content, hunk, None), on a text as given
\* or on the output of apply_hunk_to_content
ReverseAll ==
    /\ calls \in {<<>>, <<"apply_hunk_to_content">>}
    /\ content' = reverse_apply_hunk(content, hunk, NoSelection)
    /\ calls' = Append(calls, "reverse_apply_hunk")
    /\ UNCHANGED <<text, hunk, selected>>
    /\ UNCHANGED <<graphVars, diffVars, cmdVars>>

\* discard_hunk with lines: reverse_apply_hunk(content, hunk, Some(&indices)), on a text
\* as given or on the output of apply_selected_lines_to_content for the same indices
ReverseSelected(sel) ==
    /\ \/ calls = <<>>
       \/ calls = <<"apply_selected_lines_to_content">> /\ sel = selected
    /\ content' = reverse_apply_hunk(content, hunk, Some(sel))
    /\ selected' = sel
    /\ calls' = Append(calls, "reverse_apply_hunk_selected")
    /\ UNCHANGED <<text, hunk>>
    /\ UNCHANGED <<graphVars, diffVars, cmdVars>>

\* DiffConfig { max_diff_bytes, .. }; is_usize_max marks max_diff_bytes = usize::MAX,
\* which no byte total is above
DiffConfig(max, is_max) == [max_diff_bytes |-> max, is_usize_max |-> is_max]

\* DiffConfig::default(): 1 MB
max_diff_bytes_default == 1048576

DefaultConfig == DiffConfig(max_diff_bytes_default, FALSE)

\* the no_limit config of get_diff_hunk
NoLimitConfig == DiffConfig(0, TRUE)

\* FileDiff { path, hunks: Vec::new(), is_binary: false, total_lines: 0 }
EmptyFileDiff == [hunks |-> <<>>, is_binary |-> FALSE, total_lines |-> 0]

\* the state of the locals before diff.print
DiffStart(c) ==
    /\ stream = <<>>
    /\ config = c
    /\ file_diff = EmptyFileDiff
    /\ current_hunk = <<>>
    /\ current_hunk_header = <<>>
    /\ bytes_collected = 0
    /\ budget_exceeded = FALSE
    /\ diff_done = FALSE

\* no diff is being streamed
DiffIdle == DiffStart(DefaultConfig)

\* a run of 524287 bytes without line ending: with its "\n" a line of half the
\* default budget
Big == "<524287 bytes>"

\* the threads on which commands run
Threads == {1, 2}

\* the contents of the one tracked file of a repository: in the parent of the HEAD
\* commit, in the HEAD commit, in the index and in the working directory
RepoFile(parent, head, index, workfile) ==
    [parent |-> parent, head |-> head, index |-> index, workfile |-> workfile]

\* seven short lines
SevenLines ==
    <<"c1", NL, "c2", NL, "c3", NL, "c4", NL, "c5", NL, "c6", NL, "c7", NL>>

\* a repository whose working file got two lines of half a megabyte each in front and
\* a short line at the end: its unstaged diff has two hunks, and the first is larger
\* than the default budget
LargeRepo ==
    RepoFile(SevenLines, SevenLines, SevenLines,
             <<Big, NL, Big, NL>> \o SevenLines \o <<"z", NL>>)

\* a repository as the tests of staging.rs make it: the HEAD commit added line2, the
\* working file has line2 replaced by modified2
SmallRepo ==
    RepoFile(<<"line1", NL, "line3", NL>>,
             <<"line1", NL, "line2", NL, "line3", NL>>,
             <<"line1", NL, "line2", NL, "line3", NL>>,
             <<"line1", NL, "modified2", NL, "line3", NL>>)

\* the paths that hold a repository
RepoPaths == {"/large", "/small"}

\* the paths a caller passes to open_repository
Paths == RepoPaths \cup {"/missing"}

\* the repositories on disk when the application starts
InitialRepos == [p \in RepoPaths |-> IF p = "/large" THEN LargeRepo ELSE SmallRepo]

\* the small repository with a working file that has lost its last two lines since
\* the HEAD commit
TruncatedRepo == [SmallRepo EXCEPT !.workfile = <<"line1", NL>>]

\* the states of the disk a session may start from
InitialRepoStates == {InitialRepos, [InitialRepos EXCEPT !["/small"] = TruncatedRepo]}

\* a thread that runs no command
NoCommand ==
    [name |-> "", path |-> "", staged |-> FALSE, hunk_index |-> 0,
     line_indices |-> NoSelection, repo |-> <<>>, result |-> "",
     applied |-> <<>>, value |-> <<>>]

\* AppState::new(): no repository, the mutex free, no command running
CmdIdle ==
    /\ repository = <<>>
    /\ repo_lock = 0
    /\ pc = [t \in Threads |-> "idle"]
    /\ cmd = [t \in Threads |-> NoCommand]
    /\ repos = InitialRepos
    /\ ncalls = 0

\* no patch call is under way
PatchIdle ==
    /\ text = <<>>
    /\ hunk = DiffHunk(0, 0, <<>>)
    /\ content = <<>>
    /\ selected = {}
    /\ calls = <<>>

InitPatch ==
    /\ \/ text \in GeneratedTexts /\ hunk \in GeneratedHunks
       \/ text = ScenarioText /\ hunk = ScenarioHunk
    /\ content = text
    /\ selected = {}
    /\ calls = <<>>
    /\ InitGraph
    /\ DiffIdle
    /\ CmdIdle

NextPatch ==
    \/ ApplyHunk
    \/ \E sel \in Selections(hunk) : ApplySelected(sel)
    \/ ReverseAll
    \/ \E sel \in Selections(hunk) : ReverseSelected(sel)

SpecPatch == InitPatch /\ [][NextPatch]_vars

-----------------------------------------------------------------------------
(* The budgeted diff streaming of diff.rs: get_file_diff_with_config and    *)
(* get_commit_file_diff_with_config run the same closure over the callbacks *)
(* of diff.print.                                                           *)

\* String::len() of a piece of text, in bytes
SymbolLen(sym) ==
    CASE sym = Big -> 524287
      [] sym \in {"line1", "line2", "line3"} -> 5
      [] sym = "modified2" -> 9
      [] OTHER -> 1

RECURSIVE ByteLen(_)
ByteLen(c) == IF c = <<>> THEN 0 ELSE SymbolLen(Head(c)) + ByteLen(Tail(c))

\* what libgit2 passes as the hunk of a callback: header and ranges of hunk k
HunkInfo(k) ==
    [header |-> k, old_start |-> k, old_lines |-> 1, new_start |-> k, new_lines |-> 1]

\* one call of the closure: the delta's BINARY flag, Option<DiffHunk> of libgit2
\* (<<>> for None), the line's content and origin
Callback(binary, hunk_info, c, origin) ==
    [binary |-> binary, hunk |-> hunk_info, content |-> c, origin |-> origin]

\* match line.origin()
LineTypeOf(origin) ==
    CASE origin = "+" -> "Addition"
      [] origin = "-" -> "Deletion"
      [] origin = " " -> "Context"
      [] OTHER -> "Header"

\* DiffHunk { header, old_start, .., lines: Vec::new(), is_loaded }
NewDiffHunk(info, loaded) ==
    [header |-> info.header, old_start |-> info.old_start, old_lines |-> info.old_lines,
     new_start |-> info.new_start, new_lines |-> info.new_lines,
     lines |-> <<>>, is_loaded |-> loaded]

\* bytes_collected > config.max_diff_bytes
Exceeds(bytes, c) == ~c.is_usize_max /\ bytes > c.max_diff_bytes

\* a hunk start that loads every hunk
StartLoadedHunk(ds, info) ==
    [ds EXCEPT
        !.file_diff.hunks = ds.file_diff.hunks \o ds.current_hunk,
        !.current_hunk = <<NewDiffHunk(info, TRUE)>>,
        !.current_hunk_header = <<info.header>>]

\* a hunk start that leaves only the first hunk after the cut unloaded
StartHunkCutOnce(ds, info) ==
    [ds EXCEPT
        !.file_diff.hunks = ds.file_diff.hunks \o ds.current_hunk,
        !.current_hunk =
            <<NewDiffHunk(info, \/ ~ds.budget_exceeded
                                \/ (ds.current_hunk # <<>> /\ ~ds.current_hunk[1].is_loaded))>>,
        !.current_hunk_header = <<info.header>>]

\* if is_new_hunk { push the previous hunk; start a metadata-only or a loaded hunk }
StartHunk(ds, info) ==
    [ds EXCEPT
        !.file_diff.hunks = ds.file_diff.hunks \o ds.current_hunk,
        !.current_hunk = <<NewDiffHunk(info, ~ds.budget_exceeded)>>,
        !.current_hunk_header = <<info.header>>]

\* a line count that counts loaded lines only
CountLoadedLine(ds, cb, c) ==
    IF ds.current_hunk = <<>> THEN ds
    ELSE IF ds.current_hunk[1].is_loaded
    THEN LET bytes == ds.bytes_collected + ByteLen(cb.content)
         IN  [ds EXCEPT
                !.file_diff.total_lines = @ + 1,
                !.bytes_collected = bytes,
                !.current_hunk[1].lines =
                    Append(@, DiffLine(cb.content, LineTypeOf(cb.origin))),
                !.budget_exceeded = @ \/ Exceeds(bytes, c)]
    ELSE ds

\* if let Some(ref mut hunk) = current_hunk { count the line; load it if is_loaded }
CollectLine(ds, cb, c) ==
    IF ds.current_hunk = <<>> THEN ds
    ELSE IF ds.current_hunk[1].is_loaded
    THEN LET bytes == ds.bytes_collected + ByteLen(cb.content)
         IN  [ds EXCEPT
                !.file_diff.total_lines = @ + 1,
                !.bytes_collected = bytes,
                !.current_hunk[1].lines =
                    Append(@, DiffLine(cb.content, LineTypeOf(cb.origin))),
                !.budget_exceeded = @ \/ Exceeds(bytes, c)]
    ELSE [ds EXCEPT !.file_diff.total_lines = @ + 1]

\* the closure given to diff.print, on the locals
\* ds = [file_diff, current_hunk, current_hunk_header, bytes_collected, budget_exceeded]
OnCallback(ds, cb, c) ==
    IF cb.binary THEN [ds EXCEPT !.file_diff.is_binary = TRUE]
    ELSE LET is_new_hunk == cb.hunk # <<>> /\ ds.current_hunk_header # <<cb.hunk[1].header>>
             ds1 == IF is_new_hunk THEN StartHunk(ds, cb.hunk[1]) ELSE ds
         IN  CollectLine(ds1, cb, c)

\* if let Some(h) = current_hunk { file_diff.hunks.push(h) }
PushLastHunk(ds) ==
    [ds EXCEPT !.file_diff.hunks = ds.file_diff.hunks \o ds.current_hunk,
               !.current_hunk = <<>>]

\* the locals before diff.print
NewDiffState ==
    [file_diff |-> EmptyFileDiff, current_hunk |-> <<>>, current_hunk_header |-> <<>>,
     bytes_collected |-> 0, budget_exceeded |-> FALSE]

\* get_file_diff_with_config / get_commit_file_diff_with_config on the callbacks that
\* libgit2 makes for the diff
RECURSIVE PrintAll(_, _, _, _)
PrintAll(ds, cbs, i, c) ==
    IF i > Len(cbs) THEN ds ELSE PrintAll(OnCallback(ds, cbs[i], c), cbs, i + 1, c)

get_file_diff_with_config(cbs, c) == PushLastHunk(PrintAll(NewDiffState, cbs, 1, c)).file_diff

(* The callbacks libgit2 makes, in the order of a patch: the file header, then per  *)
(* hunk its header line and its lines.                                              *)

\* the content of the lines of a diff
DiffLineContents == {<<"a", NL>>, <<Big, NL>>}

\* header k of the last hunk streamed (0 before the first)
LastHunk(cbs) ==
    IF \E i \in 1..Len(cbs) : cbs[i].hunk # <<>>
    THEN cbs[Max({i \in 1..Len(cbs) : cbs[i].hunk # <<>>})].hunk[1].header
    ELSE 0

\* the callbacks that can follow cbs
NextCallbacks(cbs) ==
    IF cbs = <<>>
    THEN {Callback(FALSE, <<>>, <<"F", NL>>, "F"), Callback(TRUE, <<>>, <<"B", NL>>, "B")}
    ELSE IF cbs[Len(cbs)].binary THEN {}
    ELSE LET k == LastHunk(cbs)
         IN  (IF k < MaxHunks
              THEN {Callback(FALSE, <<HunkInfo(k + 1)>>, <<"@", NL>>, "H")} ELSE {})
             \cup (IF k >= 1
                   THEN {Callback(FALSE, <<HunkInfo(k)>>, <<"a", NL>>, o) : o \in {"-", " ", "="}}
                        \cup {Callback(FALSE, <<HunkInfo(k)>>, c, "+") : c \in DiffLineContents}
                   ELSE {})

\* the budgets of a call: a small one as the tests give, the default, none
Configs == {DiffConfig(3, FALSE), DefaultConfig, NoLimitConfig}

\* one call of the closure by diff.print
PrintCallback(cb) ==
    /\ ~diff_done
    /\ Len(stream) < MaxStream
    /\ LET ds == OnCallback([file_diff |-> file_diff, current_hunk |-> current_hunk,
                             current_hunk_header |-> current_hunk_header,
                             bytes_collected |-> bytes_collected,
                             budget_exceeded |-> budget_exceeded], cb, config)
       IN  /\ stream' = Append(stream, cb)
           /\ file_diff' = ds.file_diff
           /\ current_hunk' = ds.current_hunk
           /\ current_hunk_header' = ds.current_hunk_header
           /\ bytes_collected' = ds.bytes_collected
           /\ budget_exceeded' = ds.budget_exceeded
    /\ UNCHANGED <<config, diff_done>>
    /\ UNCHANGED <<graphVars, patchVars, cmdVars>>

\* diff.print has returned: the last hunk is pushed and the FileDiff returned
FinishDiff ==
    /\ ~diff_done
    /\ file_diff' = [file_diff EXCEPT !.hunks = file_diff.hunks \o current_hunk]
    /\ current_hunk' = <<>>
    /\ diff_done' = TRUE
    /\ UNCHANGED <<stream, config, current_hunk_header, bytes_collected, budget_exceeded>>
    /\ UNCHANGED <<graphVars, patchVars, cmdVars>>

InitDiff ==
    /\ \E c \in Configs : DiffStart(c)
    /\ InitGraph
    /\ PatchIdle
    /\ CmdIdle

NextDiff ==
    \/ \E cb \in NextCallbacks(stream) : PrintCallback(cb)
    \/ FinishDiff

SpecDiff == InitDiff /\ [][NextDiff]_vars

-----------------------------------------------------------------------------
(* The command layer: the tauri commands of commands/*.rs on the AppState   *)
(* of state/mod.rs, and the git functions they call on a repository.        *)

(* What libgit2 reports for two versions of the file: a patch with three    *)
(* lines of context, delivered as callbacks.                                *)

\* the lines of a text, each with its "\n"
RECURSIVE RawLinesFrom(_, _, _)
RawLinesFrom(s, i, cur) ==
    IF i > Len(s) THEN (IF cur = <<>> THEN <<>> ELSE <<cur>>)
    ELSE IF s[i] = NL THEN <<Append(cur, NL)>> \o RawLinesFrom(s, i + 1, <<>>)
    ELSE RawLinesFrom(s, i + 1, Append(cur, s[i]))

RawLines(s) == RawLinesFrom(s, 1, <<>>)

\* line l is one of ls
Occurs(l, ls) == \E i \in 1..Len(ls) : ls[i] = l

\* the lines of a patch from old to new, before it is cut into hunks: a common line
\* is context, a line of old that new no longer has is deleted, the others are added
RECURSIVE EditScript(_, _)
EditScript(old, new) ==
    IF old = <<>> /\ new = <<>> THEN <<>>
    ELSE IF old = <<>>
    THEN <<DiffLine(Head(new), "Addition")>> \o EditScript(old, Tail(new))
    ELSE IF new = <<>>
    THEN <<DiffLine(Head(old), "Deletion")>> \o EditScript(Tail(old), new)
    ELSE IF Head(old) = Head(new)
    THEN <<DiffLine(Head(old), "Context")>> \o EditScript(Tail(old), Tail(new))
    ELSE IF Occurs(Head(old), new)
    THEN <<DiffLine(Head(new), "Addition")>> \o EditScript(old, Tail(new))
    ELSE <<DiffLine(Head(old), "Deletion")>> \o EditScript(Tail(old), new)

\* DiffOptions::new(): three lines of context around a change
context_lines == 3

\* line i of the script is in a hunk: a change is at most context_lines away
InHunk(script, i) ==
    \E j \in 1..Len(script) :
        /\ script[j].line_type # "Context"
        /\ j - i <= context_lines
        /\ i - j <= context_lines

\* the first line of the hunk that line i is in
RunStart(script, i) == Min({a \in 1..i : \A k \in a..i : InHunk(script, k)})

\* the last line of the hunk that line i is in
RunEnd(script, i) == Max({b \in i..Len(script) : \A k \in i..b : InHunk(script, k)})

\* the lines a..b of the script that have one of the types
CountLines(script, a, b, types) == Cardinality({i \in a..b : script[i].line_type \in types})

\* header and ranges of the hunk whose lines are a..b of the script, as
\* "@@ -old_start,old_lines +new_start,new_lines @@" gives them
HunkRange(script, a, b) ==
    LET old_before == CountLines(script, 1, a - 1, {"Context", "Deletion"})
        new_before == CountLines(script, 1, a - 1, {"Context", "Addition"})
        old_lines  == CountLines(script, a, b, {"Context", "Deletion"})
        new_lines  == CountLines(script, a, b, {"Context", "Addition"})
        old_start  == IF old_lines = 0 THEN old_before ELSE old_before + 1
        new_start  == IF new_lines = 0 THEN new_before ELSE new_before + 1
    IN  [header |-> <<old_start, old_lines, new_start, new_lines>>,
         old_start |-> old_start, old_lines |-> old_lines,
         new_start |-> new_start, new_lines |-> new_lines]

\* line.origin() of a line of the patch
OriginOf(line_type) ==
    CASE line_type = "Addition" -> "+"
      [] line_type = "Deletion" -> "-"
      [] OTHER -> " "

\* the callbacks for the lines i.. of the script: a hunk header line in front of the
\* first line of each hunk
RECURSIVE HunkCallbacks(_, _)
HunkCallbacks(script, i) ==
    IF i > Len(script) THEN <<>>
    ELSE IF ~InHunk(script, i) THEN HunkCallbacks(script, i + 1)
    ELSE LET a    == RunStart(script, i)
             info == HunkRange(script, a, RunEnd(script, i))
         IN  (IF i = a THEN <<Callback(FALSE, <<info>>, <<"@", NL>>, "H")>> ELSE <<>>)
             \o <<Callback(FALSE, <<info>>, script[i].content, OriginOf(script[i].line_type))>>
             \o HunkCallbacks(script, i + 1)

\* the callbacks of diff.print for the diff from old to new: none when the file is
\* unchanged, else the file header and the hunks
DiffCallbacks(old, new) ==
    IF old = new THEN <<>>
    ELSE <<Callback(FALSE, <<>>, <<"F", NL>>, "F")>>
         \o HunkCallbacks(EditScript(RawLines(old), RawLines(new)), 1)

(* The git functions, on the contents of the file of one repository.  Each  *)
(* gives the Result it returns and the repository as it leaves it.          *)

\* what a git function leaves: result is "Ok" or the AppError, repo the repository
\* afterwards, applied the hunk handed to a patch function (<<>>: none), value the
\* Ok value (<<>>: unit)
Outcome(res, repo, applied, value) ==
    [result |-> res, repo |-> repo, applied |-> applied, value |-> value]

\* a range check that lets every hunk_index through
AnyHunkIndex(hunk_index, hunks) == TRUE

\* !(hunk_index >= diff.hunks.len())
HunkIndexInRange(hunk_index, hunks) == hunk_index < Len(hunks)

\* &diff.hunks[hunk_index]; beyond the end the index panics and no hunk of the diff
\* is applied
HunkAt(hunks, hunk_index) ==
    IF hunk_index < Len(hunks) THEN hunks[hunk_index + 1]
    ELSE NewDiffHunk(HunkRange(<<>>, 1, 0), TRUE)

\* Err(AppError::InvalidPath(format!("Hunk index {} out of range", hunk_index)))
OutOfRange(repo) == Outcome("InvalidPath", repo, <<>>, <<>>)

\* get_file_diff_with_config(repo, path, staged, config): HEAD to index if staged, else
\* index to workdir; get_file_diff gives it DiffConfig::default()
FileDiffOf(repo, staged, c) ==
    IF staged
    THEN get_file_diff_with_config(DiffCallbacks(repo.head, repo.index), c)
    ELSE get_file_diff_with_config(DiffCallbacks(repo.index, repo.workfile), c)

\* get_commit_file_diff(repo, hash, path): parent tree to the tree of the commit
CommitFileDiffOf(repo, c) ==
    get_file_diff_with_config(DiffCallbacks(repo.parent, repo.head), c)

\* get_diff_hunk: the diff again without budget, then hunks.into_iter().nth(hunk_index)
get_diff_hunk(repo, staged, hunk_index) ==
    LET diff == FileDiffOf(repo, staged, NoLimitConfig)
    IN  IF HunkIndexInRange(hunk_index, diff.hunks)
        THEN Outcome("Ok", repo, <<>>, <<HunkAt(diff.hunks, hunk_index)>>)
        ELSE OutOfRange(repo)

stage_hunk(repo, hunk_index) ==
    LET diff == FileDiffOf(repo, FALSE, DefaultConfig)
    IN  IF ~HunkIndexInRange(hunk_index, diff.hunks) THEN OutOfRange(repo)
        ELSE LET h           == HunkAt(diff.hunks, hunk_index)
                 new_content == apply_hunk_to_content(repo.index, h)
             IN  Outcome("Ok", [repo EXCEPT !.index = new_content], <<h>>, <<>>)

unstage_hunk(repo, hunk_index) ==
    LET diff == FileDiffOf(repo, TRUE, DefaultConfig)
    IN  IF ~HunkIndexInRange(hunk_index, diff.hunks) THEN OutOfRange(repo)
        ELSE LET h           == HunkAt(diff.hunks, hunk_index)
                 new_content == reverse_apply_hunk(repo.index, h, NoSelection)
             IN  Outcome("Ok", [repo EXCEPT !.index = new_content], <<h>>, <<>>)

stage_lines(repo, hunk_index, line_indices) ==
    LET diff == FileDiffOf(repo, FALSE, DefaultConfig)
    IN  IF ~HunkIndexInRange(hunk_index, diff.hunks) THEN OutOfRange(repo)
        ELSE LET h           == HunkAt(diff.hunks, hunk_index)
                 new_content ==
                     apply_selected_lines_to_content(repo.index, h, line_indices.indices)
             IN  Outcome("Ok", [repo EXCEPT !.index = new_content], <<h>>, <<>>)

discard_hunk(repo, hunk_index, line_indices) ==
    LET diff == FileDiffOf(repo, FALSE, DefaultConfig)
    IN  IF ~HunkIndexInRange(hunk_index, diff.hunks) THEN OutOfRange(repo)
        ELSE LET h           == HunkAt(diff.hunks, hunk_index)
                 new_content == reverse_apply_hunk(repo.workfile, h, line_indices)
             IN  Outcome("Ok", [repo EXCEPT !.workfile = new_content], <<h>>, <<>>)

\* the validation loop of revert_commit_file_lines: TRUE if a context or addition
\* line of the hunk differs from the line of the file at its place
RECURSIVE RevertConflict(_, _, _, _)
RevertConflict(content_lines, hlines, i, pos) ==
    IF i > Len(hlines) THEN FALSE
    ELSE IF hlines[i].line_type \in {"Context", "Addition"}
    THEN \/ /\ pos < Len(content_lines)
            /\ TrimEndNewlines(hlines[i].content) # content_lines[pos + 1]
         \/ RevertConflict(content_lines, hlines, i + 1, pos + 1)
    ELSE RevertConflict(content_lines, hlines, i + 1, pos)

revert_commit_file_lines(repo, hunk_index, line_indices) ==
    LET diff == CommitFileDiffOf(repo, DefaultConfig)
    IN  IF ~HunkIndexInRange(hunk_index, diff.hunks) THEN OutOfRange(repo)
        ELSE LET h     == HunkAt(diff.hunks, hunk_index)
                 start == SaturatingSub1(h.new_start)
             IN  IF RevertConflict(Lines(repo.workfile), h.lines, 1, start)
                 THEN Outcome("RevertConflict", repo, <<>>, <<>>)
                 ELSE LET new_content == reverse_apply_hunk(repo.workfile, h, line_indices)
                      IN  Outcome("Ok", [repo EXCEPT !.workfile = new_content,
                                                     !.index = new_content],
                                  <<h>>, <<>>)

\* git::get_commits: the HEAD commit and its parent, newest first
RepoCommits == <<CommitInfo(1, <<2>>), CommitInfo(2, <<>>)>>

\* build_commit_graph as a function of the commit list
RECURSIVE BuildGraphFrom(_, _, _)
BuildGraphFrom(st, cs, i) ==
    IF i > Len(cs) \/ st.panic THEN st.rows
    ELSE BuildGraphFrom(LoopBody(st.rows, st.cmap, st.active, cs[i]), cs, i + 1)

build_commit_graph(cs) ==
    BuildGraphFrom([rows |-> <<>>, cmap |-> <<>>, active |-> <<>>, panic |-> FALSE], cs, 1)

\* get_commits, collect_refs and build_commit_graph of the command get_commit_graph
get_commit_graph(repo) == Outcome("Ok", repo, <<>>, <<build_commit_graph(RepoCommits)>>)

\* get_repo_info: the working directory and the commit HEAD points to
get_repo_info(path, repo) == [path |-> path, head_hash |-> RepoCommits[1].hash]

(* The commands.  A thread runs one command at a time: "start" on entry,    *)
(* "body" inside the git function with the mutex held, "done" with the      *)
(* result before the return drops the guard; open_repository is "inspect"   *)
(* between git::open_repo and the end of git::get_repo_info, then "store".  *)

\* the commands that take a hunk_index
HunkCommands ==
    {"get_diff_hunk", "stage_hunk", "unstage_hunk", "stage_lines", "discard_hunk",
     "revert_commit_file_lines"}

\* the commands that write to the index or to the working file
MutationCommands ==
    {"stage_hunk", "unstage_hunk", "stage_lines", "discard_hunk",
     "revert_commit_file_lines"}

Invocation(name, path, staged, hunk_index, line_indices) ==
    [NoCommand EXCEPT !.name = name, !.path = path, !.staged = staged,
                      !.hunk_index = hunk_index, !.line_indices = line_indices]

\* the line_indices a caller passes: a deletion and the addition that replaces it
LineIndices == Some({2, 3})

\* the commands a frontend invokes, with their arguments
Invocations ==
    {Invocation("open_repository", p, FALSE, 0, NoSelection) : p \in Paths}
    \cup {Invocation("get_commit_graph", "", FALSE, 0, NoSelection)}
    \cup {Invocation("get_diff_hunk", "", st, i, NoSelection) :
            st \in BOOLEAN, i \in 0..MaxHunkIndex}
    \cup {Invocation(n, "", FALSE, i, NoSelection) :
            n \in {"stage_hunk", "unstage_hunk"}, i \in 0..MaxHunkIndex}
    \cup {Invocation(n, "", FALSE, i, LineIndices) :
            n \in {"stage_lines", "revert_commit_file_lines"}, i \in 0..MaxHunkIndex}
    \cup {Invocation("discard_hunk", "", FALSE, i, sel) :
            i \in 0..MaxHunkIndex, sel \in {NoSelection, LineIndices}}

\* the git function of a command on the repository
GitCall(c, repo) ==
    CASE c.name = "get_commit_graph" -> get_commit_graph(repo)
      [] c.name = "get_diff_hunk" -> get_diff_hunk(repo, c.staged, c.hunk_index)
      [] c.name = "stage_hunk" -> stage_hunk(repo, c.hunk_index)
      [] c.name = "unstage_hunk" -> unstage_hunk(repo, c.hunk_index)
      [] c.name = "stage_lines" -> stage_lines(repo, c.hunk_index, c.line_indices)
      [] c.name = "discard_hunk" -> discard_hunk(repo, c.hunk_index, c.line_indices)
      [] OTHER -> revert_commit_file_lines(repo, c.hunk_index, c.line_indices)

\* a check that takes a repository to be open
AssumeRepository(repo) == [ok |-> TRUE, repo |-> IF repo = <<>> THEN <<"/small">> ELSE repo]

\* repo_lock.as_ref().ok_or(AppError::NoRepository)?
CheckRepository(repo) == [ok |-> repo # <<>>, repo |-> repo]

\* the frontend invokes a command on a thread
Invoke(t, c) ==
    /\ pc[t] = "idle"
    /\ ncalls < MaxCalls
    /\ pc' = [pc EXCEPT ![t] = "start"]
    /\ cmd' = [cmd EXCEPT ![t] = c]
    /\ ncalls' = ncalls + 1
    /\ UNCHANGED <<repository, repo_lock, repos>>
    /\ UNCHANGED <<graphVars, patchVars, diffVars>>

\* let repo_lock = state.repository.lock();
\* let repo = repo_lock.as_ref().ok_or(AppError::NoRepository)?;
Acquire(t) ==
    /\ pc[t] = "start"
    /\ cmd[t].name # "open_repository"
    /\ repo_lock = 0
    /\ repo_lock' = t
    /\ LET chk == CheckRepository(repository)
       IN  IF chk.ok
           THEN /\ cmd' = [cmd EXCEPT ![t].repo = chk.repo]
                /\ pc' = [pc EXCEPT ![t] = "body"]
           ELSE /\ cmd' = [cmd EXCEPT ![t].result = "NoRepository"]
                /\ pc' = [pc EXCEPT ![t] = "done"]
    /\ UNCHANGED <<repository, repos, ncalls>>
    /\ UNCHANGED <<graphVars, patchVars, diffVars>>

\* the git function of the command, on the repository of the guard
Body(t) ==
    /\ pc[t] = "body"
    /\ LET path == cmd[t].repo[1]
           out  == GitCall(cmd[t], repos[path])
       IN  /\ repos' = [repos EXCEPT ![path] = out.repo]
           /\ cmd' = [cmd EXCEPT ![t].result = out.result, ![t].applied = out.applied,
                                 ![t].value = out.value]
    /\ pc' = [pc EXCEPT ![t] = "done"]
    /\ UNCHANGED <<repository, repo_lock, ncalls>>
    /\ UNCHANGED <<graphVars, patchVars, diffVars>>

\* open_repository: path.canonicalize() and git::open_repo(&canonical_path)?
OpenRepo(t) ==
    /\ pc[t] = "start"
    /\ cmd[t].name = "open_repository"
    /\ IF cmd[t].path \in RepoPaths
       THEN /\ cmd' = [cmd EXCEPT ![t].repo = <<cmd[t].path>>]
            /\ pc' = [pc EXCEPT ![t] = "inspect"]
       ELSE /\ cmd' = [cmd EXCEPT ![t].result = "InvalidPath"]
            /\ pc' = [pc EXCEPT ![t] = "done"]
    /\ UNCHANGED <<repository, repo_lock, repos, ncalls>>
    /\ UNCHANGED <<graphVars, patchVars, diffVars>>

\* open_repository: let info = git::get_repo_info(&repo)?
InspectRepo(t) ==
    /\ pc[t] = "inspect"
    /\ cmd' = [cmd EXCEPT ![t].value =
                    <<get_repo_info(cmd[t].repo[1], repos[cmd[t].repo[1]])>>]
    /\ pc' = [pc EXCEPT ![t] = "store"]
    /\ UNCHANGED <<repository, repo_lock, repos, ncalls>>
    /\ UNCHANGED <<graphVars, patchVars, diffVars>>

\* open_repository: let mut repo_lock = state.repository.lock(); *repo_lock = Some(repo);
StoreRepo(t) ==
    /\ pc[t] = "store"
    /\ repo_lock = 0
    /\ repo_lock' = t
    /\ repository' = cmd[t].repo
    /\ cmd' = [cmd EXCEPT ![t].result = "Ok"]
    /\ pc' = [pc EXCEPT ![t] = "done"]
    /\ UNCHANGED <<repos, ncalls>>
    /\ UNCHANGED <<graphVars, patchVars, diffVars>>

\* the command returns: the guard, if the thread has one, is dropped
Return(t) ==
    /\ pc[t] = "done"
    /\ repo_lock' = IF repo_lock = t THEN 0 ELSE repo_lock
    /\ pc' = [pc EXCEPT ![t] = "idle"]
    /\ cmd' = [cmd EXCEPT ![t] = NoCommand]
    /\ UNCHANGED <<repository, repos, ncalls>>
    /\ UNCHANGED <<graphVars, patchVars, diffVars>>

InitCmd ==
    /\ repository = <<>>
    /\ repo_lock = 0
    /\ pc = [t \in Threads |-> "idle"]
    /\ cmd = [t \in Threads |-> NoCommand]
    /\ repos \in InitialRepoStates
    /\ ncalls = 0
    /\ InitGraph
    /\ PatchIdle
    /\ DiffIdle

NextCmd ==
    \E t \in Threads :
        \/ \E c \in Invocations : Invoke(t, c)
        \/ Acquire(t)
        \/ Body(t)
        \/ OpenRepo(t)
        \/ InspectRepo(t)
        \/ StoreRepo(t)
        \/ Return(t)

SpecCmd == InitCmd /\ [][NextCmd]_vars

-----------------------------------------------------------------------------
Init == InitGraph /\ PatchIdle /\ DiffIdle /\ CmdIdle

Next == \E commit \in NextCommits : ProcessCommit(commit)

Spec == Init /\ [][Next]_vars

-----------------------------------------------------------------------------
(* Properties of the diff streaming (SpecDiff).                             *)

\* the hunks of the result: those pushed and the one being streamed
Hunks == file_diff.hunks \o current_hunk

\* the callbacks of cbs made inside hunk k
CallbacksOf(cbs, k) == SelectSeq(cbs, LAMBDA cb : cb.hunk # <<>> /\ cb.hunk[1].header = k)

\* the bytes of the lines streamed inside hunks by the first i callbacks
RECURSIVE StreamedBytes(_, _)
StreamedBytes(cbs, i) ==
    IF i = 0 THEN 0
    ELSE StreamedBytes(cbs, i - 1) + (IF cbs[i].hunk # <<>> THEN ByteLen(cbs[i].content) ELSE 0)

\* the callbacks at which the running byte total is above the budget
OverBudget(cbs, c) ==
    {i \in 1..Len(cbs) : ~c.is_usize_max /\ StreamedBytes(cbs, i) > c.max_diff_bytes}

\* the hunk being streamed when the running byte total first exceeds the budget
\* (0: never exceeded)
CutHunk(cbs, c) ==
    IF OverBudget(cbs, c) = {} THEN 0
    ELSE LastHunk(SubSeq(cbs, 1, Min(OverBudget(cbs, c))))

\* the DiffLines of the callbacks
LinesOf(cbs) == [i \in 1..Len(cbs) |-> DiffLine(cbs[i].content, LineTypeOf(cbs[i].origin))]

\* header and ranges of a result hunk are those libgit2 gave
Populated(h) ==
    /\ h.old_start = HunkInfo(h.header).old_start
    /\ h.old_lines = HunkInfo(h.header).old_lines
    /\ h.new_start = HunkInfo(h.header).new_start
    /\ h.new_lines = HunkInfo(h.header).new_lines

\* C15 as stated: once the running byte total exceeds the budget, the hunk being
\* streamed at that moment and every later hunk are returned with is_loaded = false
\* and empty lines.
BudgetCutsCurrentHunk ==
    LET cut == CutHunk(stream, config)
    IN  (diff_done /\ cut # 0) =>
            \A j \in 1..Len(Hunks) :
                Hunks[j].header >= cut =>
                    ~Hunks[j].is_loaded /\ Hunks[j].lines = <<>> /\ Populated(Hunks[j])

\* C15, amended: the hunk being streamed when the running byte total exceeds the
\* budget stays loaded and keeps every one of its lines, also those after the cut;
\* every later hunk has is_loaded = false and empty lines; all hunks keep header
\* and ranges.
BudgetCutsLaterHunks ==
    LET cut == CutHunk(stream, config)
    IN  /\ Len(Hunks) = LastHunk(stream)
        /\ budget_exceeded <=> cut # 0
        /\ \A j \in 1..Len(Hunks) :
            /\ Hunks[j].header = j
            /\ Populated(Hunks[j])
            /\ IF cut # 0 /\ j > cut
               THEN ~Hunks[j].is_loaded /\ Hunks[j].lines = <<>>
               ELSE Hunks[j].is_loaded /\ Hunks[j].lines = LinesOf(CallbacksOf(stream, j))

\* C15 witness: a finished diff whose budget was exceeded inside a hunk that went on
\* to receive a further line, followed by a hunk with lines of its own
BudgetCutReached ==
    LET cut == CutHunk(stream, config)
    IN  /\ diff_done
        /\ cut # 0
        /\ \E i \in 1..Len(stream) :
            /\ i > Min(OverBudget(stream, config))
            /\ stream[i].hunk = <<HunkInfo(cut)>>
        /\ Len(Hunks) > cut
        /\ Len(CallbacksOf(stream, cut + 1)) > 1

RECURSIVE LoadedLines(_)
LoadedLines(hunks) ==
    IF hunks = <<>> THEN 0 ELSE Len(Head(hunks).lines) + LoadedLines(Tail(hunks))

\* C16: total_lines counts every line streamed inside a hunk: it is at least the
\* number of loaded lines, equals it when every hunk is loaded, and is greater when
\* an unloaded hunk contained lines.
TotalLinesCountsEveryLine ==
    /\ file_diff.total_lines = Len(SelectSeq(stream, LAMBDA cb : ~cb.binary /\ cb.hunk # <<>>))
    /\ file_diff.total_lines >= LoadedLines(Hunks)
    /\ (\A j \in 1..Len(Hunks) : Hunks[j].is_loaded) =>
            file_diff.total_lines = LoadedLines(Hunks)
    /\ (\E j \in 1..Len(Hunks) :
            ~Hunks[j].is_loaded /\ Len(CallbacksOf(stream, Hunks[j].header)) > 0) =>
            file_diff.total_lines > LoadedLines(Hunks)

\* C16 witness: a finished diff with an unloaded hunk that contained lines
UnloadedLinesReached ==
    /\ diff_done
    /\ \E j \in 1..Len(file_diff.hunks) :
        /\ ~file_diff.hunks[j].is_loaded
        /\ Len(CallbacksOf(stream, j)) >= 2
    /\ file_diff.total_lines > LoadedLines(file_diff.hunks)

-----------------------------------------------------------------------------
(* Properties of the command layer (SpecCmd).                               *)

\* the number of hunks of the diff that the command of thread t works on, taken
\* without budget from the repository as it is
HunkCount(c, repo) ==
    IF c.name = "revert_commit_file_lines"
    THEN Len(CommitFileDiffOf(repo, NoLimitConfig).hunks)
    ELSE Len(FileDiffOf(repo, c.name = "unstage_hunk" \/ c.staged, NoLimitConfig).hunks)

\* thread t is inside the git function of a command with a hunk_index that is not
\* below the number of hunks
OutOfRangeCall(t) ==
    /\ cmd[t].name \in HunkCommands
    /\ cmd[t].repo # <<>>
    /\ cmd[t].hunk_index >= HunkCount(cmd[t], repos[cmd[t].repo[1]])

\* C14: a command given a hunk_index >= the number of hunks of the diff returns an
\* error and leaves the index and the working file as they were.
HunkIndexValidated ==
    [][\A t \in Threads :
        (pc[t] = "body" /\ pc'[t] = "done" /\ OutOfRangeCall(t)) =>
            /\ cmd'[t].result = "InvalidPath"
            /\ repos' = repos]_vars

\* C14 witness: a mutation command has returned the error for an index beyond the
\* hunks of a diff that has hunks
OutOfRangeReached ==
    \E t \in Threads :
        /\ pc[t] = "done"
        /\ cmd[t].name \in MutationCommands
        /\ OutOfRangeCall(t)
        /\ HunkCount(cmd[t], repos[cmd[t].repo[1]]) > 0
        /\ cmd[t].result = "InvalidPath"

\* C17: the hunk a mutation command hands to a patch function is fully loaded; a
\* hunk cut by the byte budget is never applied.
AppliedHunksLoaded ==
    \A t \in Threads :
        cmd[t].applied # <<>> =>
            /\ cmd[t].applied[1].is_loaded
            /\ Len(cmd[t].applied[1].lines) > 0

\* a thread is working on the repository at the path: inside a git function, or
\* between git::open_repo and the end of git::get_repo_info
Accessing(t) == IF pc[t] \in {"body", "inspect"} THEN cmd[t].repo ELSE <<>>

\* C18: no two threads work on the same repository at the same time, open_repository
\* included.
NoOverlappingAccess ==
    \A t1 \in Threads : \A t2 \in Threads \ {t1} :
        Accessing(t1) # <<>> => Accessing(t1) # Accessing(t2)

\* C19: a repository command that finds AppState.repository None returns NoRepository
\* and neither the application state nor a repository changes while it runs.
NoRepositoryError ==
    [][\A t \in Threads :
        (/\ cmd[t].name \notin {"", "open_repository"}
         /\ repository = <<>>
         /\ pc'[t] # pc[t]) =>
            /\ repository' = <<>>
            /\ repos' = repos
            /\ pc[t] = "start" => (pc'[t] = "done" /\ cmd'[t].result = "NoRepository")
            /\ pc[t] = "done" => cmd[t].result = "NoRepository"]_vars

\* C19 witness: a mutation command has returned NoRepository while no repository is open
NoRepositoryReached ==
    \E t \in Threads :
        /\ pc[t] = "done"
        /\ cmd[t].name \in MutationCommands
        /\ cmd[t].result = "NoRepository"
        /\ repository = <<>>

-----------------------------------------------------------------------------
(* Properties of the patch functions (checked under SpecPatch)             *)

\* C1: patch round-trip: after apply_hunk_to_content and then reverse_apply_hunk with
\* no selection, on any text and any hunk, the content is exactly the original text
PatchRoundTrip ==
    calls = <<"apply_hunk_to_content", "reverse_apply_hunk">> => content = text

\* C2: selective round-trip: after apply_selected_lines_to_content with a selection S
\* and then reverse_apply_hunk with Some(S), on any text, hunk and S, the content is
\* exactly the original text
SelectiveRoundTrip ==
    calls = <<"apply_selected_lines_to_content", "reverse_apply_hunk_selected">>
        => content = text

\* the state after apply_selected on the scenario text and hunk with only the
\* Addition's index (2) selected
ScenarioCApplied ==
    /\ text = ScenarioText
    /\ hunk = ScenarioHunk
    /\ calls = <<"apply_selected_lines_to_content">>
    /\ selected = {2}

\* C8 (as the code behaves): scenario C yields "line1\nline2\nmodified2\nline3\n":
\* the kept old line 2 comes before the added line
ScenarioCKeepsOldLineFirst ==
    ScenarioCApplied
        => content = <<"line1", NL, "line2", NL, "modified2", NL, "line3", NL>>

\* C8 (as stated): scenario C yields "line1\nmodified2\nline2\nline3\n"
ScenarioCAsStated ==
    ScenarioCApplied
        => content = <<"line1", NL, "modified2", NL, "line2", NL, "line3", NL>>

\* C8: the scenario has been applied and both the old and the new line 2 are present
ScenarioCReached == ScenarioCApplied /\ Len(Lines(content)) = 4

\* the hunk has a line of the given kind
HasLineOfType(h, type) == \E i \in 1..Len(h.lines) : h.lines[i].line_type = type

\* C11: the full modes equal the selective modes with every index selected:
\* apply_hunk_to_content(text, H) = apply_selected_lines_to_content(text, H, all indices)
\* and reverse_apply_hunk(text, H, None) = reverse_apply_hunk(text, H, Some(all indices)),
\* for every text and hunk
FullEqualsSelectAll ==
    /\ calls = <<"apply_hunk_to_content">>
          => content = apply_selected_lines_to_content(text, hunk, AllIndices(hunk))
    /\ calls = <<"reverse_apply_hunk">>
          => content = reverse_apply_hunk(text, hunk, Some(AllIndices(hunk)))
    /\ (calls = <<"apply_selected_lines_to_content">> /\ selected = AllIndices(hunk))
          => content = apply_hunk_to_content(text, hunk)
    /\ (calls = <<"reverse_apply_hunk_selected">> /\ selected = AllIndices(hunk))
          => content = reverse_apply_hunk(text, hunk, NoSelection)

\* C11: reverse_apply_hunk with no selection has changed a text by a hunk that has a
\* Deletion and an Addition line
FullReverseReached ==
    /\ calls = <<"reverse_apply_hunk">>
    /\ HasLineOfType(hunk, "Deletion")
    /\ HasLineOfType(hunk, "Addition")
    /\ content # text

\* C12: trailing-newline preservation: the output of each patch function ends with a
\* newline if and only if its input text does
TrailingNewlinePreserved ==
    Len(calls) = 1 => (EndsWithNewline(content) <=> EndsWithNewline(text))

\* the text holds no trace of an index read beyond the end of lines
IsText(c) == \A i \in 1..Len(c) : c[i] # IndexOutOfBounds

\* C13: the patch functions are total: for every text, hunk and selection, also with
\* the hunk's start or lines beyond the end of the text and with selected indices
\* outside the hunk, each function returns a text and reads no index out of bounds
PatchFunctionsTotal == Len(calls) >= 1 => IsText(content)

\* C13: apply_selected_lines_to_content has returned for a hunk that starts beyond the
\* end of the text and still holds an unselected Deletion line, with a selected index
\* outside the hunk
BeyondTheEndReached ==
    /\ calls = <<"apply_selected_lines_to_content">>
    /\ SaturatingSub1(hunk.old_start) > Len(Lines(text))
    /\ Len(hunk.lines) \in selected
    /\ \E i \in 1..Len(hunk.lines) :
          hunk.lines[i].line_type = "Deletion" /\ (i - 1) \notin selected

-----------------------------------------------------------------------------
(* Properties of build_commit_graph (checked under Spec)                   *)

\* row has a line that reaches column c of the next row
HasSource(row, c) ==
    \E k \in 1..Len(row.lines) :
        \/ row.lines[k].line_type = "ToParent" /\ row.lines[k].to_column = c
        \/ row.lines[k].line_type = "PassThrough" /\ row.lines[k].from_column = c

\* the lines of a row of the given kind (as positions)
LinesOfType(row, type) == {k \in 1..Len(row.lines) : row.lines[k].line_type = type}

\* the lines of a row with is_merge set (as positions)
MergeLines(row) == {k \in 1..Len(row.lines) : row.lines[k].is_merge}

\* the hashes that appear as rows of the list
Hashes(cs) == {cs[i].hash : i \in 1..Len(cs)}

\* C3: no orphan FromAbove: for a topologically ordered input, every FromAbove line at
\* column c of a row i > 0 has, in row i-1 of the final output, a ToParent line ending
\* at c or a PassThrough line at c
NoOrphanFromAbove ==
    TopoOrdered(commits) =>
        \A i \in 2..Len(result) : \A k \in LinesOfType(result[i], "FromAbove") :
            HasSource(result[i - 1], result[i].lines[k].from_column)

\* C3: a topologically ordered input in whose output one FromAbove line is fed by a
\* PassThrough line only and another by a ToParent line that changes column
OrphanCasesReached ==
    /\ TopoOrdered(commits)
    /\ \E i \in 2..Len(result) : \E k \in LinesOfType(result[i], "FromAbove") :
          LET c == result[i].lines[k].from_column
          IN  \A j \in LinesOfType(result[i - 1], "ToParent") :
                  result[i - 1].lines[j].to_column # c
    /\ \E i \in 2..Len(result) : \E k \in LinesOfType(result[i], "FromAbove") :
          LET c == result[i].lines[k].from_column
          IN  \E j \in LinesOfType(result[i - 1], "ToParent") :
                  /\ result[i - 1].lines[j].to_column = c
                  /\ result[i - 1].lines[j].from_column # c

\* two merges in sequence, each side branch converging into the main line right after
\* its merge (test_convergence_frees_column, without the commits between the merges)
BranchReuseCommits ==
    <<CommitInfo(1, <<3, 2>>), CommitInfo(2, <<3>>), CommitInfo(3, <<5, 4>>),
      CommitInfo(4, <<5>>), CommitInfo(5, <<>>)>>

\* C4: convergence frees columns: no row is assigned a column index greater than the
\* largest number of columns reserved at the same time, and the two side branches of
\* BranchReuseCommits both use column 1
ColumnsAreReused ==
    /\ \A i \in 1..Len(result) : result[i].column <= max_reserved
    /\ commits = BranchReuseCommits =>
          /\ result[2].column = 1
          /\ result[4].column = 1
          /\ \A i \in 1..Len(result) : result[i].column <= 1

\* C4: the two side branches have been laid out, the second in the column the first freed
BranchReuseReached ==
    /\ commits = BranchReuseCommits
    /\ Len(result) = 5
    /\ result[4].column = 1
    /\ max_reserved = 2

\* C5: merge fan-out count: in every output, a row whose commit has k >= 2 parents has
\* exactly k-1 lines with is_merge, all of kind ToParent, and a row with fewer than 2
\* parents has none
MergeFanOutCount ==
    \A i \in 1..Len(result) :
        LET k == Len(result[i].commit.parent_hashes)
        IN  /\ Cardinality(MergeLines(result[i])) = (IF k >= 2 THEN k - 1 ELSE 0)
            /\ \A j \in MergeLines(result[i]) : result[i].lines[j].line_type = "ToParent"

\* C5: a merge row whose first-parent line was rewritten by a later takeover
RewrittenMergeReached ==
    /\ Len(commits) >= 3
    /\ SubSeq(commits, 1, 3)
          = <<CommitInfo(1, <<3>>), CommitInfo(2, <<4, 5>>), CommitInfo(3, <<4>>)>>
    /\ Len(result) >= 3
    /\ \E k \in 1..Len(result[2].lines) :
          result[2].lines[k] = GraphLine(1, 0, FALSE, "ToParent")
    /\ Cardinality(MergeLines(result[2])) = 1

\* a single-parent chain given newest first, the last commit without parent
Linear(cs) ==
    \A i \in 1..Len(cs) :
        /\ cs[i].hash = i
        /\ cs[i].parent_hashes = (IF i < Len(cs) THEN <<i + 1>> ELSE <<>>)

\* C6: column stability: for a linear history of N >= 1 commits every row is in
\* column 0 and is_tip is true for row 0 only
LinearHistoryColumnZero ==
    (Len(commits) >= 1 /\ Linear(commits)) =>
        /\ Len(result) = Len(commits)
        /\ \A i \in 1..Len(result) :
              /\ result[i].column = 0
              /\ result[i].is_tip = (i = 1)

\* C6: a linear history of MaxCommits commits has been laid out
LinearHistoryReached ==
    /\ Linear(commits)
    /\ Len(commits) = MaxCommits
    /\ Len(result) = MaxCommits

\* [merge(parents=[main2, branch1]), branch1(parents=[base]), main2(parents=[base]),
\*  base(parents=[])] with merge = 1, branch1 = 2, main2 = 3, base = 4
DiamondCommits ==
    <<CommitInfo(1, <<3, 2>>), CommitInfo(2, <<4>>), CommitInfo(3, <<4>>),
      CommitInfo(4, <<>>)>>

\* C7: diamond scenario: merge in column 0 with exactly one is_merge ToParent line
\* (0 to 1), branch1 in column 1, main2 and base in column 0, maximum column 1,
\* branch1's non-merge ToParent line is (1 to 0) after the fix-up, and main2's row has
\* no PassThrough line
DiamondLayout ==
    commits = DiamondCommits =>
        /\ Len(result) = 4
        /\ result[1].column = 0
        /\ Cardinality(MergeLines(result[1])) = 1
        /\ \A k \in MergeLines(result[1]) :
              result[1].lines[k] = GraphLine(0, 1, TRUE, "ToParent")
        /\ result[2].column = 1
        /\ result[3].column = 0
        /\ result[4].column = 0
        /\ \A i \in 1..4 : result[i].column <= 1
        /\ Cardinality(LinesOfType(result[2], "ToParent")) = 1
        /\ \A k \in LinesOfType(result[2], "ToParent") :
              result[2].lines[k] = GraphLine(1, 0, FALSE, "ToParent")
        /\ LinesOfType(result[3], "PassThrough") = {}

\* C7: the diamond has been laid out
DiamondReached == commits = DiamondCommits /\ Len(result) = 4

\* C9: build_commit_graph is total: for every input list (empty, with duplicate or
\* self-referencing hashes, with parents that never appear) it does not panic and
\* returns one row per input commit, in input order, carrying the commit unchanged
GraphIsTotal ==
    /\ ~panicked
    /\ Len(result) = Len(commits)
    /\ \A i \in 1..Len(result) : result[i].commit = commits[i]

\* C9: a list of MaxMalformed commits with a duplicate hash, a commit that is its own
\* parent and a parent that never appears has been laid out
MalformedListReached ==
    /\ Len(commits) = MaxMalformed
    /\ Len(result) = MaxMalformed
    /\ \E i, j \in 1..Len(commits) : i < j /\ commits[i].hash = commits[j].hash
    /\ \E i \in 1..Len(commits) : \E k \in 1..Len(commits[i].parent_hashes) :
          commits[i].parent_hashes[k] = commits[i].hash
    /\ \E i \in 1..Len(commits) : \E k \in 1..Len(commits[i].parent_hashes) :
          commits[i].parent_hashes[k] \notin Hashes(commits)

\* row i of the list has parents and none of them appears as a row of the list
AllParentsMissing(cs, i) ==
    /\ cs[i].parent_hashes # <<>>
    /\ \A k \in 1..Len(cs[i].parent_hashes) : cs[i].parent_hashes[k] \notin Hashes(cs)

LowestFree(active) ==
    CHOOSE c \in 0..Len(active) :
        /\ c < Len(active) => active[c + 1] = None
        /\ \A d \in 0..(c - 1) : active[d + 1] # None

\* C20: a row whose hash has a reservation when it is processed takes the reserved
\* column with is_tip = false; any other row takes the lowest free column of
\* active_columns at that moment (a new last column if none is free) with
\* is_tip = true.
ColumnResolution ==
    [][Len(result') = Len(result) + 1 =>
        LET row == result'[Len(result')]
        IN  IF row.commit.hash \in DOMAIN column_map
            THEN row.column = column_map[row.commit.hash] /\ ~row.is_tip
            ELSE row.column = LowestFree(active_columns) /\ row.is_tip]_vars

\* C20 witness: a list in which a row took a reserved column other than 0 and a later
\* tip was given a column other than 0
ColumnResolutionReached ==
    \E i \in 1..Len(result) : \E j \in 1..Len(result) :
        /\ i < j
        /\ ~result[i].is_tip
        /\ result[i].column > 0
        /\ result[j].is_tip
        /\ result[j].column > 0

\* the rows reached from row i by following first parents only, as far as they are
\* rows of the list
RECURSIVE FirstParentChain(_, _)
FirstParentChain(cs, i) ==
    IF i < 1 \/ i > Len(cs) THEN {}
    ELSE {i} \cup (IF FirstParent(cs[i]) > i THEN FirstParentChain(cs, FirstParent(cs[i]))
                   ELSE {})

\* C21: main lineage pinned to column 0: for a topologically ordered input the first
\* row and every row reached from it by first parents only are in column 0.
MainLineageColumnZero ==
    TopoOrdered(commits) =>
        \A i \in FirstParentChain(commits, 1) : i <= Len(result) => result[i].column = 0

\* C21 witness: a side branch in a higher column reserved the parent it shares with a
\* later row of the main lineage, and that parent has been laid out
SideBranchFirstReached ==
    /\ TopoOrdered(commits)
    /\ \E j \in 1..Len(result) : \E i \in FirstParentChain(commits, 1) :
        /\ j < i
        /\ j \notin FirstParentChain(commits, 1)
        /\ result[j].column > 0
        /\ FirstParent(commits[j]) = FirstParent(commits[i])
        /\ FirstParent(commits[i]) \in FirstParentChain(commits, 1)
        /\ FirstParent(commits[i]) <= Len(result)

\* the step lays out a row at a column below the one its first parent is reserved at
TakeoverStep ==
    /\ Len(result') = Len(result) + 1
    /\ FirstParent(result'[Len(result')].commit) # None
    /\ FirstParent(result'[Len(result')].commit) \in DOMAIN column_map
    /\ result'[Len(result')].column < column_map[FirstParent(result'[Len(result')].commit)]

\* what a takeover leaves, but for the old column: the parent is reserved at the
\* column of the row, the row has the straight non-merge ToParent line and no
\* PassThrough line at the old column, the nearest earlier row with the same first
\* parent has its non-merge ToParent line end at the column of the row, and no other
\* line of an earlier row has changed
TakeoverEffect ==
    LET row  == result'[Len(result')]
        c    == row.column
        p    == FirstParent(row.commit)
        e    == column_map[p]
        hits == {i \in 1..Len(result) : FirstParent(result[i].commit) = p}
    IN  /\ column_map'[p] = c
        /\ active_columns'[c + 1] = p
        /\ \E k \in 1..Len(row.lines) : row.lines[k] = GraphLine(c, c, FALSE, "ToParent")
        /\ \A k \in 1..Len(row.lines) :
              ~(row.lines[k].line_type = "PassThrough" /\ row.lines[k].from_column = e)
        /\ \A i \in 1..Len(result) : i \notin {Max(hits \cup {0})} => result'[i] = result[i]
        /\ hits # {} =>
              LET old == result[Max(hits)]
                  new == result'[Max(hits)]
              IN  /\ \E k \in 1..Len(new.lines) :
                        /\ new.lines[k].line_type = "ToParent"
                        /\ ~new.lines[k].is_merge
                        /\ new.lines[k].to_column = c
                  /\ Len(new.lines) = Len(old.lines)
                  /\ [new EXCEPT !.lines = old.lines] = old
                  /\ Cardinality({k \in 1..Len(old.lines) : new.lines[k] # old.lines[k]}) <= 1
                  /\ \A k \in 1..Len(old.lines) :
                        new.lines[k] # old.lines[k] =>
                            /\ old.lines[k].line_type = "ToParent"
                            /\ ~old.lines[k].is_merge
                            /\ new.lines[k] = [old.lines[k] EXCEPT !.to_column = c]

\* the old column of the parent is free after the step
OldColumnFree ==
    LET e == column_map[FirstParent(result'[Len(result')].commit)]
    IN  e < Len(active_columns') => active_columns'[e + 1] = None

\* the old column of the parent is free after the step, or holds a merge parent of
\* the row that had no reservation before the step
OldColumnFreeOrReused ==
    LET row == result'[Len(result')]
        e   == column_map[FirstParent(row.commit)]
    IN  e < Len(active_columns') =>
            \/ active_columns'[e + 1] = None
            \/ \E k \in 2..Len(row.commit.parent_hashes) :
                  /\ active_columns'[e + 1] = row.commit.parent_hashes[k]
                  /\ row.commit.parent_hashes[k] \notin DOMAIN column_map

\* C22 as stated: after a takeover the parent is reserved at the column of the row,
\* its old column is free, the row has the straight ToParent line and no PassThrough
\* line at the old column, and only the nearest earlier row with the same first
\* parent is rewritten, to end at the column of the row.
TakeoverFreesOldColumn ==
    [][TakeoverStep => (TakeoverEffect /\ OldColumnFree)]_vars

\* C22, amended: as stated, but the old column is free only as long as no merge
\* parent of the same row is given it: it is free, or holds a merge parent of the
\* row that had no reservation.
TakeoverMovesReservation ==
    [][TakeoverStep => (TakeoverEffect /\ OldColumnFreeOrReused)]_vars

\* C22 witness: a row in column 0 has taken its first parent over from a higher
\* column, and the nearest earlier row with that first parent now ends at column 0
TakeoverReached ==
    \E i \in 1..Len(result) : \E j \in 1..Len(result) :
        /\ j < i
        /\ result[i].column = 0
        /\ result[j].column > 0
        /\ FirstParent(commits[j]) = FirstParent(commits[i])
        /\ FirstParent(commits[i]) # None
        /\ \A k \in LinesOfType(result[i], "PassThrough") :
              result[i].lines[k].from_column # result[j].column
        /\ \E k \in LinesOfType(result[j], "ToParent") :
              result[j].lines[k] = GraphLine(result[j].column, 0, FALSE, "ToParent")

\* C23: node connectivity: for a topologically ordered input every row with
\* is_tip = false has a FromAbove line at its own column.
NodeConnectivity ==
    TopoOrdered(commits) =>
        \A i \in 1..Len(result) :
            ~result[i].is_tip =>
                \E k \in LinesOfType(result[i], "FromAbove") :
                    result[i].lines[k] = GraphLine(result[i].column, result[i].column,
                                                   FALSE, "FromAbove")

\* C23 witness: a list of MaxCommits rows with a row that is not a tip in a column
\* other than 0 and a row that is not a tip below the column of an earlier row whose
\* first parent it is
ConnectedRowsReached ==
    /\ TopoOrdered(commits)
    /\ Len(result) = MaxCommits
    /\ \E i \in 1..Len(result) : ~result[i].is_tip /\ result[i].column > 0
    /\ \E i \in 1..Len(result) : \E j \in 1..Len(result) :
        /\ j < i
        /\ ~result[i].is_tip
        /\ FirstParent(commits[j]) = i
        /\ result[j].column > result[i].column

\* C29: column/reservation consistency: after each row of a topologically ordered
\* input every hash that is reserved and not yet processed occupies the column
\* recorded for it, every occupied column holds such a hash, and so no two open
\* lineages share a column.
ReservationConsistency ==
    TopoOrdered(commits) =>
        /\ \A h \in DOMAIN column_map \ Hashes(commits) :
              /\ column_map[h] < Len(active_columns)
              /\ active_columns[column_map[h] + 1] = h
        /\ \A c \in 1..Len(active_columns) :
              active_columns[c] # None =>
                  /\ active_columns[c] \in DOMAIN column_map \ Hashes(commits)
                  /\ column_map[active_columns[c]] = c - 1
        /\ \A h1 \in DOMAIN column_map \ Hashes(commits) :
              \A h2 \in DOMAIN column_map \ Hashes(commits) :
                  h1 # h2 => column_map[h1] # column_map[h2]

\* C29 witness: lineages are open in columns 0 and 2 while column 1 is free, after a
\* row that took over a first parent that is still to come
OpenLineagesReached ==
    /\ TopoOrdered(commits)
    /\ Len(active_columns) = 3
    /\ active_columns[1] # None
    /\ active_columns[2] = None
    /\ active_columns[3] # None
    /\ \E i \in 1..Len(result) : \E j \in 1..Len(result) :
        /\ j < i
        /\ result[j].column > result[i].column
        /\ FirstParent(commits[j]) = FirstParent(commits[i])
        /\ FirstParent(commits[i]) \in DOMAIN column_map \ Hashes(commits)

\* the ToParent line of row for the k-th parent: the non-merge line for the first,
\* the (k-1)-th merge line for the others (as a set of at most one line)
ParentLine(row, k) ==
    LET own   == {j \in LinesOfType(row, "ToParent") : ~row.lines[j].is_merge}
        merge == {j \in LinesOfType(row, "ToParent") : row.lines[j].is_merge}
    IN  IF k = 1 THEN {row.lines[j] : j \in own}
        ELSE {row.lines[j] : j \in {m \in merge :
                                      Cardinality({n \in merge : n < m}) = k - 2}}

\* C30: edges land on their parent: for a topologically ordered input, the ToParent
\* line of a row for a parent that appears as a later row ends at the column of that
\* parent's row.
EdgesLandOnParent ==
    TopoOrdered(commits) =>
        \A i \in 1..Len(result) : \A k \in 1..Len(commits[i].parent_hashes) :
            commits[i].parent_hashes[k] <= Len(result) =>
                \A l \in ParentLine(result[i], k) :
                    l.to_column = result[commits[i].parent_hashes[k]].column

-----------------------------------------------------------------------------
(* Properties of the selective patch functions (checked under SpecPatch)   *)

\* the number of lines of the given kinds among the first i - 1 lines of the hunk
SideLinesBefore(h, kinds, i) ==
    Cardinality({j \in 1..(i - 1) : h.lines[j].line_type \in kinds})

\* the number of lines of the hunk on the side made of the given kinds
SideLen(h, kinds) == SideLinesBefore(h, kinds, Len(h.lines) + 1)

\* the lines of text c from line start + 1 on are the hunk's lines of the given
\* kinds, in order
MatchesSide(c, h, start, kinds) ==
    /\ start + SideLen(h, kinds) <= Len(Lines(c))
    /\ \A i \in 1..Len(h.lines) :
          h.lines[i].line_type \in kinds
              => Lines(c)[start + SideLinesBefore(h, kinds, i) + 1]
                     = TrimEndNewlines(h.lines[i].content)

OldSide == {"Context", "Deletion"}

NewSide == {"Context", "Addition"}

\* the lines that stand in place of the hunk's span of text c when, of the lines of
\* the kinds in side, those of kind drop are taken out if selected, and the lines of
\* kind insert are put in if selected; the lines that stay are the ones of c
RECURSIVE PatchedSpan(_, _, _, _, _, _, _, _)
PatchedSpan(lines, h, start, side, drop, insert, sel, i) ==
    IF i > Len(h.lines) THEN <<>>
    ELSE LET line == h.lines[i]
             own  == lines[start + SideLinesBefore(h, side, i) + 1]
             here == IF line.line_type = insert
                     THEN (IF (i - 1) \in sel
                           THEN <<TrimEndNewlines(line.content)>> ELSE <<>>)
                     ELSE IF line.line_type = drop
                     THEN (IF (i - 1) \in sel THEN <<>> ELSE <<own>>)
                     ELSE IF line.line_type = "Context" THEN <<own>>
                     ELSE <<>>
         IN  here \o PatchedSpan(lines, h, start, side, drop, insert, sel, i + 1)

\* the lines of c with the span of the hunk patched as PatchedSpan says
PatchedLines(c, h, start, side, drop, insert, sel) ==
    Take(Lines(c), start)
        \o PatchedSpan(Lines(c), h, start, side, drop, insert, sel, 1)
        \o Skip(Lines(c), start + SideLen(h, side))

\* C24: selective forward apply: for every text C whose lines from old_start match
\* the hunk's Context and Deletion lines, and every selection S, the lines of
\* apply_selected_lines_to_content(C, H, S) are the lines of C with exactly the
\* selected Deletion lines removed and exactly the selected Addition lines inserted at
\* their hunk positions; unselected Deletion lines stay, unselected Addition lines are
\* absent, Context lines are those of C
SelectiveForwardApply ==
    (/\ calls = <<"apply_selected_lines_to_content">>
     /\ MatchesSide(text, hunk, SaturatingSub1(hunk.old_start), OldSide))
        => Lines(content)
              = PatchedLines(text, hunk, SaturatingSub1(hunk.old_start),
                             OldSide, "Deletion", "Addition", selected)

\* C25: selective reverse apply: for every text T whose lines from new_start match
\* the hunk's Context and Addition lines, and every selection S, the lines of
\* reverse_apply_hunk(T, H, Some(S)) are the lines of T with exactly the selected
\* Addition lines removed and exactly the selected Deletion lines re-inserted at their
\* hunk positions; unselected Additions stay and unselected Deletions stay absent
SelectiveReverseApply ==
    (/\ calls = <<"reverse_apply_hunk_selected">>
     /\ MatchesSide(text, hunk, SaturatingSub1(hunk.new_start), NewSide))
        => Lines(content)
              = PatchedLines(text, hunk, SaturatingSub1(hunk.new_start),
                             NewSide, "Addition", "Deletion", selected)

\* p is the head of s
IsPrefixOf(p, s) == Len(p) <= Len(s) /\ SubSeq(s, 1, Len(p)) = p

\* t is the tail of s
IsSuffixOf(t, s) == Len(t) <= Len(s) /\ SubSeq(s, Len(s) - Len(t) + 1, Len(s)) = t

\* the lines of the input before line start + 1 are the head of the output, and the
\* lines of the input after the span of the hunk's lines of the given kinds are its tail
FrameKept(input, output, h, start, side) ==
    /\ IsPrefixOf(Take(Lines(input), start), Lines(output))
    /\ IsSuffixOf(Skip(Lines(input), start + SideLen(h, side)), Lines(output))

\* C26: lines outside the hunk are untouched: for every text, hunk and selection, the
\* first old_start - 1 lines of the input are the first lines of the output of
\* apply_selected_lines_to_content (new_start - 1 for reverse_apply_hunk), and the
\* input lines after the span consumed by the hunk are, unchanged and in order, the
\* tail of the output
LinesOutsideHunkUntouched ==
    /\ calls = <<"apply_selected_lines_to_content">>
          => FrameKept(text, content, hunk, SaturatingSub1(hunk.old_start), OldSide)
    /\ calls \in {<<"reverse_apply_hunk">>, <<"reverse_apply_hunk_selected">>}
          => FrameKept(text, content, hunk, SaturatingSub1(hunk.new_start), NewSide)

-----------------------------------------------------------------------------
(* Properties of revert_commit_file_lines (checked under SpecCmd)           *)

\* thread t is inside revert_commit_file_lines with a hunk_index of the commit's diff
RevertCall(t) ==
    /\ cmd[t].name = "revert_commit_file_lines"
    /\ cmd[t].repo # <<>>
    /\ ~OutOfRangeCall(t)

\* the hunk of the commit's diff that the command of thread t reverts
RevertHunk(t) ==
    CommitFileDiffOf(repos[cmd[t].repo[1]], DefaultConfig).hunks[cmd[t].hunk_index + 1]

\* every Context and Addition line of the hunk stands at its new-side position,
\* counted from new_start, in the working file
NewSideInFile(t) ==
    MatchesSide(repos[cmd[t].repo[1]].workfile, RevertHunk(t),
                SaturatingSub1(RevertHunk(t).new_start), NewSide)

\* C27: revert-by-lines validation: if some Context or Addition line of the hunk
\* differs from, or is absent at, its new-side position in the working file,
\* revert_commit_file_lines returns a conflict error and writes neither the file nor
\* the index
RevertValidated ==
    [][\A t \in Threads :
        (pc[t] = "body" /\ pc'[t] = "done" /\ RevertCall(t) /\ ~NewSideInFile(t)) =>
            /\ cmd'[t].result = "RevertConflict"
            /\ repos' = repos]_vars

-----------------------------------------------------------------------------
(* Further properties of the diff streaming (checked under SpecDiff)       *)

\* C28: budget exhaustion is permanent: in every result the hunk list is a run of
\* loaded hunks followed only by unloaded hunks with empty lines: a hunk with
\* is_loaded = false has no lines, and every hunk after it has is_loaded = false
BudgetExhaustionPermanent ==
    diff_done =>
        \A i \in 1..Len(file_diff.hunks) :
            ~file_diff.hunks[i].is_loaded =>
                \A j \in i..Len(file_diff.hunks) :
                    ~file_diff.hunks[j].is_loaded /\ file_diff.hunks[j].lines = <<>>

\* C28 witness: a result with a loaded hunk followed by two unloaded hunks, the last
\* of which was streamed with a line of its own
UnloadedRunReached ==
    /\ diff_done
    /\ Len(file_diff.hunks) = 3
    /\ file_diff.hunks[1].is_loaded
    /\ ~file_diff.hunks[2].is_loaded
    /\ ~file_diff.hunks[3].is_loaded
    /\ Len(CallbacksOf(stream, 3)) >= 2

====
